---- MODULE Spec2Model ----
(***************************************************************************)
(* A model of charlton/spec.py: the memorize / examine / build pipeline    *)
(* that turns a model description into model-matrix builders.              *)
(*                                                                         *)
(* The module is modelled as Python executes it.  A name that a function   *)
(* reads but that is neither one of its locals or parameters nor bound at  *)
(* module level (by a def, a class or an import) raises NameError at the   *)
(* point where it is read, and the call ends there.  The entry points are  *)
(* independent, so each group of them has its own specification:           *)
(*   SpecPipeline   _factors_memorize, _examine_factor_types,              *)
(*                  make_model_specs                                       *)
(*   SpecNumericEval    NumericFactorEvaluator                             *)
(*   SpecCategoricEval  CategoricFactorEvaluator, _BoolToCategorical       *)
(*   SpecColumn     ColumnBuilder                                          *)
(*   SpecMatrix     ModelMatrixBuilder                                     *)
(* Python's 0-based indices are kept as values; TLA+ sequences are 1-based,*)
(* so element i of a Python list is s[i + 1].                              *)
(***************************************************************************)
EXTENDS Integers, Sequences, FiniteSets, TLC

\* ------------------------------------------------------------- bounds
MaxPasses == 2
MaxChunks == 2
MaxRows == 2       \* rows of a data chunk
MaxWidth == 2      \* columns of a numeric factor
MaxCalls == 2      \* eval calls made on one evaluator
MaxTermLen == 3    \* factors of a term
MaxTerms == 3      \* terms of a model matrix builder
MaxBuilders == 2   \* column builders of one term

\* ------------------------------------------------------------- universe
\* The factors of a model description (objects with name(), eval(), ...).
Factors == {"f1", "f2", "f3"}

\* What a factor's eval returns on a chunk, by the properties the code
\* inspects: Categorical instance, numeric array (1 or 2 columns), boolean
\* array, string array, or an array of more than 2 dimensions.
ValueKinds == {"categorical", "numeric1", "numeric2", "bool", "string", "deep"}

\* The empty dict {}.
EmptyDict == [x \in {} |-> 0]

VARIABLES
  \* ---- inputs of the pipeline
  factors,            \* the factor set handed to the pipeline
  passes_needed,      \* what each factor's memorize_passes_needed returns
  value_kind,         \* what each factor's eval returns
  nchunks,            \* length of the stream data_iter_maker() yields
  \* ---- _factors_memorize
  fm_pc,              \* "ready", "returned" or the exception raised
  fm_factor_states,   \* the dict factor_states
  fm_memorize_passes, \* the dict memorize_passes
  memorize_calls,     \* calls issued to factors: <<op, factor, pass, chunk>>
  iter_maker_calls,   \* times data_iter_maker was called by _factors_memorize
  \* ---- _examine_factor_types
  ex_pc,
  numeric_column_counts,
  categorical_postprocessors,
  categorical_levels_contrasts,
  examine_needed,
  chunks_read,        \* chunks the examiner pulled from the stream
  eval_calls,         \* factor.eval calls issued by the examiner
  \* ---- make_model_specs
  mms_pc,
  mms_phases,         \* phases entered, in order
  factor_evaluators,  \* the dict factor_evaluators
  \* ---- NumericFactorEvaluator (one instance)
  nfe,                \* the instance: factor, _state, _expected_columns
  nfe_arg,            \* the value the factor has in the chunk of the last call
  nfe_pc,             \* "ready", "returned" or the exception of the last call
  nfe_result,         \* what the last call returned
  nfe_calls,          \* eval calls made so far
  \* ---- CategoricFactorEvaluator (one instance)
  cfe,                \* the instance: factor, _postprocessor, _expected_levels
  cfe_arg,
  cfe_pc,
  cfe_result,
  cfe_calls,
  \* ---- _BoolToCategorical (one instance, transform called directly)
  btc_arg,
  btc_pc,
  btc_result,
  \* ---- ColumnBuilder (one instance)
  cb,                 \* the instance: factors, numeric_columns,
                      \* categoric_contrasts, columns_per_factor
  cb_names_pc,        \* column_names(): "ready", "returned" or the exception
  cb_names,           \* what column_names() returned
  cb_build_pc,        \* build(): "ready", "returned" or the exception
  cb_fv,              \* the factor_values handed to build
  cb_out,             \* the out matrix handed to build, as build left it
  \* ---- ModelMatrixBuilder (one instance)
  mmb_terms,                 \* the argument terms
  mmb_term_column_builders,  \* the argument term_column_builders
  mmb_pc,                    \* "new" or "constructed"
  column_info                \* self.column_info

pipelineVars == <<factors, passes_needed, value_kind, nchunks,
                  fm_pc, fm_factor_states, fm_memorize_passes, memorize_calls,
                  iter_maker_calls,
                  ex_pc, numeric_column_counts, categorical_postprocessors,
                  categorical_levels_contrasts, examine_needed, chunks_read,
                  eval_calls, mms_pc, mms_phases, factor_evaluators>>

evalVars == <<nfe, nfe_arg, nfe_pc, nfe_result, nfe_calls,
              cfe, cfe_arg, cfe_pc, cfe_result, cfe_calls,
              btc_arg, btc_pc, btc_result>>

columnVars == <<cb, cb_names_pc, cb_names, cb_build_pc, cb_fv, cb_out>>

matrixVars == <<mmb_terms, mmb_term_column_builders, mmb_pc, column_info>>

vars == <<pipelineVars, evalVars, columnVars, matrixVars>>

\* ------------------------------------------------------------- names
\* The names bound in the module's global namespace: its imports (lines
\* 12-17) and its top-level defs and classes.
ModuleGlobals ==
  {"np", "CharltonErrorWithOrigin", "CategoricalTransform", "Categorical",
   "atleast_2d_column_default", "odometer_iter", "DictStack", "ModelMatrix",
   "ModelMatrixColumnInfo", "_MockFactor", "_max_allowed_dim",
   "_BoolToCategorical", "NumericFactorEvaluator", "CategoricFactorEvaluator",
   "ColumnBuilder", "_factors_memorize", "_examine_factor_types",
   "_make_model_builder", "ModelMatrixBuilder", "ModelSpec",
   "make_model_matrices", "make_model_specs",
   "model_spec_from_model_desc_and_data", "LookupFactor"}

\* Reading `name` in a function whose local names are `locals`.
IsBound(name, locals) == name \in locals \/ name \in ModuleGlobals

\* ------------------------------------------------------------- values
\* Sequences over S of length lo..hi.
SeqsOf(S, lo, hi) == UNION {[1..n -> S] : n \in lo..hi}

\* Array elements are written as strings, whatever the dtype.
Elems(dtype) ==
  CASE dtype = "b" -> {"False", "True"}
    [] dtype = "i" -> {"0", "1"}
    [] dtype = "U" -> {"a", "b"}

\* numpy dtype kinds: b boolean, i integer, f float, U string.
DTypes == {"b", "i", "U"}
NumericDTypes == {"i", "f"}

\* A 1-dimensional array with its elements.
Arrays1d ==
  {[tag |-> "array", dtype |-> d, shape |-> <<Len(s)>>, flat |-> s] :
     d \in DTypes, s \in UNION {SeqsOf(Elems(e), 1, MaxRows) : e \in DTypes}}

\* Arrays of 2 and 3 dimensions, by shape and dtype (elements not modelled).
ArraysNd ==
  {[tag |-> "array", dtype |-> d, shape |-> sh, flat |-> <<>>] :
     d \in DTypes,
     sh \in {<<n, m>> : n \in 1..MaxRows, m \in 1..(MaxWidth + 1)}
            \cup {<<n, 1, 1>> : n \in 1..MaxRows}}

WellTyped(a) == \A i \in 1..Len(a.flat) : a.flat[i] \in Elems(a.dtype)

ArrayValues == {a \in Arrays1d : WellTyped(a)} \cup ArraysNd

\* Level sequences of Categorical values.
LevelSeqs == {<<"a", "b">>, <<"b", "a">>, <<"a", "c">>, <<"a", "b", "c">>,
              <<"False", "True">>}

\* Categorical instances: levels (a tuple), int_array (per-row level index)
\* and the number of dimensions of int_array (test_CategoricFactorEvaluator
\* resizes one to 2 dimensions).
CategoricalValues ==
  {[tag |-> "Categorical", levels |-> l, int_array |-> ia, ndim |-> nd] :
     l \in LevelSeqs, nd \in 1..2,
     ia \in UNION {SeqsOf(0..(Len(l) - 1), 1, MaxRows) : l \in LevelSeqs}}

CategoricalWell(c) ==
  \A i \in 1..Len(c.int_array) : c.int_array[i] < Len(c.levels)

\* What a factor's eval may hand to an evaluator.
FactorValues ==
  ArrayValues \cup {c \in CategoricalValues : CategoricalWell(c)}

NoValue == [tag |-> "none"]

Ndim(a) == IF a.tag = "Categorical" THEN a.ndim ELSE Len(a.shape)

\* _max_allowed_dim(dim, arr, factor), lines 29-34: TRUE when it raises
\* CharltonErrorWithOrigin.
MaxAllowedDimRaises(dim, arr) == Ndim(arr) > dim

\* charlton.util.atleast_2d_column_default on an array: fewer than 2
\* dimensions become a column, (n,) -> (n, 1) and () -> (1, 1).
AtLeast2dColumnDefault(a) ==
  CASE Len(a.shape) = 0 -> [a EXCEPT !.shape = <<1, 1>>]
    [] Len(a.shape) = 1 -> [a EXCEPT !.shape = <<a.shape[1], 1>>]
    [] OTHER -> a

\* ------------------------------------------------------------- _BoolToCategorical
\* charlton.categorical.Categorical(data, levels=[False, True]) on boolean
\* data: each row's index in the level sequence.
CategoricalOfBool(data) ==
  [tag |-> "Categorical", levels |-> <<"False", "True">>,
   int_array |-> [i \in 1..Len(data.flat) |->
                    IF data.flat[i] = "True" THEN 1 ELSE 0],
   ndim |-> 1]

\* _BoolToCategorical.transform(data), lines 52-62: the outcome.
BoolTransformOutcome(data) ==
  IF MaxAllowedDimRaises(1, data) THEN "CharltonErrorWithOrigin"
  ELSE IF data.dtype # "b" THEN "CharltonErrorWithOrigin"
  ELSE "returned"

BoolTransform ==
  /\ btc_pc = "ready"
  /\ \E data \in ArrayValues :
       /\ btc_arg' = data
       /\ btc_pc' = BoolTransformOutcome(data)
       /\ btc_result' = IF BoolTransformOutcome(data) = "returned"
                          THEN CategoricalOfBool(data) ELSE NoValue
  /\ UNCHANGED <<nfe, nfe_arg, nfe_pc, nfe_result, nfe_calls,
                 cfe, cfe_arg, cfe_pc, cfe_result, cfe_calls>>
  /\ UNCHANGED <<pipelineVars, columnVars, matrixVars>>

\* ------------------------------------------------------------- NumericFactorEvaluator
\* Parameters and locals of NumericFactorEvaluator.eval (lines 84-102).
NumericEvalLocals == {"self", "data", "result"}

\* Line 85, `self.factor.eval(self._state, DictStack([env, default_env]))`:
\* the list display reads env before DictStack or factor.eval is called.
NumericEvalRaises == ~IsBound("env", NumericEvalLocals)

\* NumericFactorEvaluator.eval(data): ended by line 85 for every chunk; the
\* instance is not written.
NumericEval ==
  /\ nfe_calls < MaxCalls
  /\ \E value \in FactorValues :
       /\ nfe_arg' = value
       /\ NumericEvalRaises
       /\ nfe_pc' = "NameError"
       /\ nfe_result' = NoValue
  /\ nfe_calls' = nfe_calls + 1
  /\ UNCHANGED <<nfe, cfe, cfe_arg, cfe_pc, cfe_result, cfe_calls,
                 btc_arg, btc_pc, btc_result>>
  /\ UNCHANGED <<pipelineVars, columnVars, matrixVars>>

\* ------------------------------------------------------------- CategoricFactorEvaluator
\* Parameters and locals of CategoricFactorEvaluator.eval (lines 133-152).
CategoricEvalLocals == {"self", "data", "result", "msg"}

\* Line 134, `self.factor.eval(self._state, DictStack([data, default_env]))`:
\* the list display reads default_env before anything is called.
CategoricEvalRaises == ~IsBound("default_env", CategoricEvalLocals)

\* CategoricFactorEvaluator.eval(data): ended by line 134 for every chunk.
CategoricEval ==
  /\ cfe_calls < MaxCalls
  /\ \E value \in FactorValues :
       /\ cfe_arg' = value
       /\ CategoricEvalRaises
       /\ cfe_pc' = "NameError"
       /\ cfe_result' = NoValue
  /\ cfe_calls' = cfe_calls + 1
  /\ UNCHANGED <<cfe, nfe, nfe_arg, nfe_pc, nfe_result, nfe_calls,
                 btc_arg, btc_pc, btc_result>>
  /\ UNCHANGED <<pipelineVars, columnVars, matrixVars>>

\* ------------------------------------------------------------- evaluator specs
\* NumericFactorEvaluator.__init__ (lines 77-82) has run.
NumericEvaluators == [factor : {"MOCKMOCK"}, expected_columns : 1..MaxWidth]

\* CategoricFactorEvaluator.__init__ (lines 124-131) has run;
\* _expected_levels = tuple(expected_levels).
CategoricEvaluators ==
  [factor : {"MOCKMOCK"}, postprocessor : {"None", "_BoolToCategorical"},
   expected_levels : LevelSeqs]

EvalStart ==
  /\ nfe_arg = NoValue /\ nfe_pc = "ready" /\ nfe_result = NoValue
  /\ nfe_calls = 0
  /\ cfe_arg = NoValue /\ cfe_pc = "ready" /\ cfe_result = NoValue
  /\ cfe_calls = 0
  /\ btc_arg = NoValue /\ btc_pc = "ready" /\ btc_result = NoValue

NumericIdle == nfe = [factor |-> "MOCKMOCK", expected_columns |-> 1]

CategoricIdle ==
  cfe = [factor |-> "MOCKMOCK", postprocessor |-> "None",
         expected_levels |-> <<"a", "b">>]

\* The evaluators are not in use (the other specifications).
EvalIdle == NumericIdle /\ CategoricIdle /\ EvalStart

\* ------------------------------------------------------------- ColumnBuilder
\* factor.name() (lines 26-27): a factor is written as its name.
Name(factor) == factor

\* "%s" % column_idx for the indices that occur.
IdxStr(i) == <<"0", "1", "2", "3", "4", "5", "6", "7", "8", "9">>[i + 1]

\* ContrastMatrix objects: matrix (levels x codes) and column_suffixes.
\* ContrastTest is test_ColumnBuilder's (lines 236-238) with its entries
\* doubled, [[0, 0.5], [3, 0]] -> [[0, 1], [6, 0]], to stay in the integers.
ContrastTest ==
  [matrix |-> << <<0, 1>>, <<6, 0>> >>, column_suffixes |-> <<"[c1]", "[c2]">>]

ContrastTreatment ==
  [matrix |-> << <<0>>, <<1>> >>, column_suffixes |-> <<"[T.b]">>]

Contrasts == {ContrastTest, ContrastTreatment}

\* matrix.shape
MatrixRows(m) == Len(m)
MatrixColumns(m) == Len(m[1])

Range(seq) == {seq[k] : k \in 1..Len(seq)}

\* np.prod(seq, dtype=int); 1 for the empty list.
RECURSIVE Prod(_)
Prod(seq) == IF seq = <<>> THEN 1 ELSE Head(seq) * Prod(Tail(seq))

\* ColumnBuilder.__init__ (lines 183-193): the width of each factor.
ColumnsOf(factor, numeric_columns, categoric_contrasts) ==
  IF factor \in DOMAIN categoric_contrasts
    THEN MatrixColumns(categoric_contrasts[factor].matrix)
    ELSE numeric_columns[factor]

ColumnBuilderNew(fs, numeric_columns, categoric_contrasts) ==
  [factors |-> fs,
   numeric_columns |-> numeric_columns,
   categoric_contrasts |-> categoric_contrasts,
   columns_per_factor |->
     [k \in 1..Len(fs) |-> ColumnsOf(fs[k], numeric_columns,
                                     categoric_contrasts)]]

\* charlton.util.odometer_iter(maximums): counts like an odometer, from all
\* zeros, the rightmost digit moving fastest, digit k below maximums[k].
\* OdometerStep advances digit i, carrying to the left; done when the
\* carry leaves the leftmost digit.
RECURSIVE OdometerStep(_, _, _)
OdometerStep(cur, maximums, i) ==
  IF i = 0 THEN [done |-> TRUE, cur |-> cur]
  ELSE IF cur[i] + 1 < maximums[i]
    THEN [done |-> FALSE, cur |-> [cur EXCEPT ![i] = cur[i] + 1]]
    ELSE OdometerStep([cur EXCEPT ![i] = 0], maximums, i - 1)

RECURSIVE OdometerFrom(_, _)
OdometerFrom(cur, maximums) ==
  LET nxt == OdometerStep(cur, maximums, Len(maximums))
  IN  IF nxt.done THEN <<cur>>
      ELSE <<cur>> \o OdometerFrom(nxt.cur, maximums)

Odometer(maximums) ==
  OdometerFrom([k \in 1..Len(maximums) |-> 0], maximums)

\* One factor's piece of a column name, lines 202-212, as string tokens.
\* (Line 207's assert holds: the width of a factor in numeric_columns only
\* is its numeric count.)
NamePiece(self, factor, column_idx) ==
  IF factor \in DOMAIN self.numeric_columns
    THEN IF self.numeric_columns[factor] > 1
           THEN <<Name(factor), "[", IdxStr(column_idx), "]">>
           ELSE <<Name(factor)>>
    ELSE <<Name(factor),
           self.categoric_contrasts[factor].column_suffixes[column_idx + 1]>>

\* ":".join(name_pieces) over zip(self.factors, column_idxs), pieces 1..k.
RECURSIVE JoinPieces(_, _, _)
JoinPieces(self, column_idxs, k) ==
  IF k = 0 THEN <<>>
  ELSE IF k = 1 THEN NamePiece(self, self.factors[1], column_idxs[1])
  ELSE JoinPieces(self, column_idxs, k - 1) \o <<":">>
       \o NamePiece(self, self.factors[k], column_idxs[k])

\* Lines 198-213: one name per odometer combination, in odometer order.
ColumnNamesOdometer(self) ==
  LET odo == Odometer(self.columns_per_factor)
  IN  [i \in 1..Len(odo) |-> JoinPieces(self, odo[i], Len(self.factors))]

\* column_names without the special case of lines 196-197.
ColumnNamesNoIntercept(self) == ColumnNamesOdometer(self)

\* ColumnBuilder.column_names(), lines 195-213: the list built.
ColumnNamesList(self) ==
  IF self.factors = <<>> THEN << <<"Intercept">> >>
  ELSE ColumnNamesOdometer(self)

\* ColumnBuilder.column_names(): line 214's assert, then the return.
ColumnNamesOutcome(self) ==
  IF self.factors # <<>>
     /\ Len(ColumnNamesList(self)) # Prod(self.columns_per_factor)
    THEN "AssertionError" ELSE "returned"

ColumnNames ==
  /\ cb_names_pc = "ready"
  /\ cb_names_pc' = ColumnNamesOutcome(cb)
  /\ cb_names' = IF ColumnNamesOutcome(cb) = "returned"
                   THEN ColumnNamesList(cb) ELSE <<>>
  /\ UNCHANGED <<cb, cb_build_pc, cb_fv, cb_out>>
  /\ UNCHANGED <<pipelineVars, evalVars, matrixVars>>

\* A matrix of `rows` rows and `cols` columns filled with v.
Filled(rows, cols, v) == [r \in 1..rows |-> [c \in 1..cols |-> v]]

\* The out[:] = 1 of line 219 left out.
OutInitSkipped(out) == out

\* Line 219, out[:] = 1.
OutInit(out) == [r \in 1..Len(out) |-> [c \in 1..Len(out[r]) |-> 1]]

\* The numeric factor read at column 0 whatever column_idx is.
ContributionFirstColumn(self, factor_values, factor, column_idx, r) ==
  IF factor \in DOMAIN self.categoric_contrasts
    THEN self.categoric_contrasts[factor]
             .matrix[factor_values[factor][r][1] + 1][column_idx + 1]
    ELSE factor_values[factor][r][1]

\* The factor by which lines 222-229 multiply row r of a column: the
\* contrast matrix entry of the row's level for a categorical factor, the
\* row's value in column column_idx for a numeric one.
Contribution(self, factor_values, factor, column_idx, r) ==
  IF factor \in DOMAIN self.categoric_contrasts
    THEN self.categoric_contrasts[factor]
             .matrix[factor_values[factor][r][1] + 1][column_idx + 1]
    ELSE factor_values[factor][r][column_idx + 1]

\* Lines 221-229 for one column and row: `start` multiplied in place by
\* the contributions of factors 1..k, in factor order.
RECURSIVE MultiplyIn(_, _, _, _, _, _)
MultiplyIn(self, factor_values, column_idxs, r, start, k) ==
  IF k = 0 THEN start
  ELSE MultiplyIn(self, factor_values, column_idxs, r, start, k - 1)
       * Contribution(self, factor_values, self.factors[k], column_idxs[k], r)

\* ColumnBuilder.build(factor_values, out), lines 219-229: out afterwards.
\* Column i (0-based) is touched for the i-th odometer combination only.
BuildOut(self, factor_values, out) ==
  LET odo == Odometer(self.columns_per_factor)
      ones == OutInit(out)
  IN  [r \in 1..Len(out) |->
        [c \in 1..Len(out[r]) |->
          IF c <= Len(odo)
            THEN MultiplyIn(self, factor_values, odo[c], r, ones[r][c],
                            Len(self.factors))
            ELSE ones[r][c]]]

\* Line 218's assert on out.shape[1].
BuildOutcome(self, cols) ==
  IF Prod(self.columns_per_factor) # cols THEN "AssertionError"
  ELSE "returned"

\* ---- the inputs of build
FactorNo(f) == CASE f = "f1" -> 1 [] f = "f2" -> 2 [] f = "f3" -> 3

\* Shifts of the numeric sample data.
Seeds == {0, 1}

\* A numeric factor's evaluated matrix (rows x width): distinct entries
\* around zero, shifted by the seed and the factor.
NumericSample(rows, width, seed, f) ==
  [r \in 1..rows |->
    [c \in 1..width |-> (r - 1) * width + c + seed + FactorNo(f) - 3]]

\* A categorical factor's evaluated matrix (rows x 1): a level index of its
\* contrast matrix in each row, starting at any level and stepping by any
\* amount (every index column of up to two rows is of this form).
CategoricSamples(rows, levels) ==
  {[r \in 1..rows |-> <<(start + (r - 1) * step) % levels>>] :
     start \in 0..(levels - 1), step \in 0..(levels - 1)}

\* The factor_values mappings a builder may be handed for a chunk of `rows`
\* rows: the matrix of every factor of the module, those of the term in the
\* shape their evaluators return (so line 227's assert holds), the others
\* as single numeric columns.
FactorValueMaps(self, rows) ==
  LET cats == DOMAIN self.categoric_contrasts
  IN  {[f \in Factors |->
          IF f \in cats THEN ci[f]
          ELSE IF f \in DOMAIN self.numeric_columns
            THEN NumericSample(rows, self.numeric_columns[f], seed, f)
            ELSE NumericSample(rows, 1, seed, f)] :
        seed \in Seeds,
        ci \in [cats -> UNION {CategoricSamples(
                                  rows,
                                  MatrixRows(self.categoric_contrasts[g].matrix))
                               : g \in cats}]}

\* Each categorical factor's indices are levels of its own contrast.
IndicesInRange(self, fv) ==
  \A f \in DOMAIN self.categoric_contrasts :
    \A r \in 1..Len(fv[f]) :
      fv[f][r][1] < MatrixRows(self.categoric_contrasts[f].matrix)

\* What np.empty left in out, and one matrix a column too wide.
Garbage == {7}

OutArrays(self, rows) ==
  {Filled(rows, Prod(self.columns_per_factor), g) : g \in Garbage}
  \cup {Filled(rows, Prod(self.columns_per_factor) + 1, 0)}

\* test_ColumnBuilder's first builder and chunk (lines 240-245), f3 doubled
\* like the contrast: [7.5, 2, -12] -> [15, 4, -24].
TestBuilder ==
  ColumnBuilderNew(<<"f1", "f2", "f3">>,
                   [f \in {"f1", "f3"} |-> 1],
                   [f \in {"f2"} |-> ContrastTest])

TestFactorValues ==
  [f \in Factors |->
     CASE f = "f1" -> << <<1>>, <<2>>, <<3>> >>
       [] f = "f2" -> << <<0>>, <<0>>, <<1>> >>
       [] f = "f3" -> << <<15>>, <<4>>, <<-24>> >>]

\* (factor_values, out) pairs for one build call.
BuildInputs(self) ==
  {<<fv, out>> \in
     UNION {FactorValueMaps(self, rows) \X OutArrays(self, rows)
            : rows \in 0..MaxRows} :
     IndicesInRange(self, fv)}
  \cup (IF self = TestBuilder
          THEN {<<TestFactorValues, Filled(3, 2, 7)>>} ELSE {})

Build ==
  /\ cb_build_pc = "ready"
  /\ \E input \in BuildInputs(cb) :
       LET factor_values == input[1]
           out == input[2]
           cols == IF out = <<>> THEN Prod(cb.columns_per_factor)
                   ELSE Len(out[1])
       IN  /\ cb_fv' = factor_values
           /\ cb_build_pc' = BuildOutcome(cb, cols)
           /\ cb_out' = IF BuildOutcome(cb, cols) = "returned"
                          THEN BuildOut(cb, factor_values, out) ELSE out
  /\ UNCHANGED <<cb, cb_names_pc, cb_names>>
  /\ UNCHANGED <<pipelineVars, evalVars, matrixVars>>

\* ---- ColumnBuilder instances: a term's factor list without repetition,
\* each factor either numeric (in numeric_columns) or categorical (in
\* categoric_contrasts).
TermFactorLists ==
  {fs \in SeqsOf(Factors, 0, MaxTermLen) :
     \A i, j \in 1..Len(fs) : i # j => fs[i] # fs[j]}

ColumnBuilders ==
  UNION {UNION {{ColumnBuilderNew(fs, nc, cc) :
                   nc \in [num -> 1..MaxWidth],
                   cc \in [Range(fs) \ num -> Contrasts]}
                : num \in SUBSET Range(fs)}
         : fs \in TermFactorLists}

ColumnStart ==
  /\ cb_names_pc = "ready" /\ cb_names = <<>>
  /\ cb_build_pc = "ready" /\ cb_fv = EmptyDict /\ cb_out = <<>>

\* The column builder is not in use (the other specifications).
ColumnIdle == cb = ColumnBuilderNew(<<>>, EmptyDict, EmptyDict) /\ ColumnStart

\* ------------------------------------------------------------- ModelMatrixBuilder
\* Terms of a model description (hashable objects, compared by equality).
Terms == {"t1", "t2", "t3"}

\* Column builders a term may own: the intercept builder (1 name) and a
\* numeric factor of two columns (2 names).
BuilderPool ==
  {ColumnBuilderNew(<<>>, EmptyDict, EmptyDict),
   ColumnBuilderNew(<<"f1">>, [f \in {"f1"} |-> 2], EmptyDict)}

\* Lines 376-380 for one term: this_count after the loop.
RECURSIVE ThisCount(_)
ThisCount(column_builders) ==
  IF column_builders = <<>> THEN 0
  ELSE Len(ColumnNamesList(Head(column_builders)))
       + ThisCount(Tail(column_builders))

\* Lines 377-380 for one term: the names added to column_names.
RECURSIVE ThisNames(_)
ThisNames(column_builders) ==
  IF column_builders = <<>> THEN <<>>
  ELSE ColumnNamesList(Head(column_builders))
       \o ThisNames(Tail(column_builders))

\* Lines 372-381: term_column_count after the loop over the first k terms.
TermColumnCount(terms, term_column_builders) ==
  [k \in 1..Len(terms) |-> ThisCount(term_column_builders[terms[k]])]

\* Lines 373-380: column_names after the loop over the first k terms.
RECURSIVE AllColumnNames(_, _, _)
AllColumnNames(terms, term_column_builders, k) ==
  IF k = 0 THEN <<>>
  ELSE AllColumnNames(terms, term_column_builders, k - 1)
       \o ThisNames(term_column_builders[terms[k]])

\* np.cumsum
RECURSIVE CumSum(_)
CumSum(seq) ==
  IF seq = <<>> THEN <<>>
  ELSE LET front == CumSum(SubSeq(seq, 1, Len(seq) - 1))
       IN  Append(front,
                  (IF front = <<>> THEN 0 ELSE front[Len(front)])
                  + seq[Len(seq)])

\* The cumsum of line 382 left out.
TermColumnStartsNoCumSum(term_column_count) == <<0>> \o term_column_count

\* Line 382: np.concatenate(([0], np.cumsum(term_column_count))).
TermColumnStarts(term_column_count) == <<0>> \o CumSum(term_column_count)

\* d[key] = value on a dict.
DictSet(d, key, value) ==
  [x \in DOMAIN d \cup {key} |-> IF x = key THEN value ELSE d[x]]

\* Lines 383-388: term_to_columns after the first k iterations.
RECURSIVE TermToColumns(_, _, _)
TermToColumns(terms, starts, k) ==
  IF k = 0 THEN EmptyDict
  ELSE DictSet(TermToColumns(terms, starts, k - 1), terms[k],
               <<starts[k], starts[k + 1]>>)

\* ModelMatrixBuilder.__init__(terms, factor_evaluators,
\* term_column_builders), lines 368-391; ModelMatrixColumnInfo keeps its
\* three arguments.
ModelMatrixBuilderInit ==
  /\ mmb_pc = "new"
  /\ LET starts == TermColumnStarts(
                     TermColumnCount(mmb_terms, mmb_term_column_builders))
         spans == TermToColumns(mmb_terms, starts, Len(mmb_terms))
     IN  column_info' =
           [column_names |-> AllColumnNames(mmb_terms,
                                            mmb_term_column_builders,
                                            Len(mmb_terms)),
            term_name_to_columns |-> spans,
            term_to_columns |-> spans]
  /\ mmb_pc' = "constructed"
  /\ UNCHANGED <<mmb_terms, mmb_term_column_builders>>
  /\ UNCHANGED <<pipelineVars, evalVars, columnVars>>

\* The arguments: any list of terms, and a list of column builders for
\* each term of the list.
MatrixInputs ==
  /\ mmb_terms \in SeqsOf(Terms, 0, MaxTerms)
  /\ mmb_term_column_builders \in
       [Range(mmb_terms) -> SeqsOf(BuilderPool, 1, MaxBuilders)]

NoColumnInfo ==
  [column_names |-> <<>>, term_name_to_columns |-> EmptyDict,
   term_to_columns |-> EmptyDict]

MatrixStart == mmb_pc = "new" /\ column_info = NoColumnInfo

\* The model matrix builder is not in use (the other specifications).
MatrixIdle ==
  /\ mmb_terms = <<>> /\ mmb_term_column_builders = EmptyDict
  /\ MatrixStart

\* ------------------------------------------------------------- _factors_memorize
\* Parameters and locals of _factors_memorize (lines 270-299).
FactorsMemorizeLocals ==
  {"stateful_transforms", "default_env", "factors", "data_iter_maker",
   "factor_states", "memorize_passes", "factor", "state", "which_pass",
   "memorize_needed", "passes", "data"}

\* Line 276, `for factor in all_factors:`, is the first statement after the
\* two dicts are created; all_factors is read before any factor is touched.
FactorsMemorizeRaises == ~IsBound("all_factors", FactorsMemorizeLocals)

\* _factors_memorize(stateful_transforms, default_env, factors, data_iter_maker)
\* lines 274-276: factor_states = {}, memorize_passes = {}, then the read of
\* all_factors ends the call; no factor method and no data_iter_maker call
\* has been made, and nothing is returned.
FactorsMemorize ==
  /\ fm_pc = "ready"
  /\ FactorsMemorizeRaises
  /\ fm_factor_states' = EmptyDict
  /\ fm_memorize_passes' = EmptyDict
  /\ fm_pc' = "NameError"
  /\ UNCHANGED <<factors, passes_needed, value_kind, nchunks, memorize_calls,
                 iter_maker_calls,
                 ex_pc, numeric_column_counts, categorical_postprocessors,
                 categorical_levels_contrasts, examine_needed, chunks_read,
                 eval_calls, mms_pc, mms_phases, factor_evaluators>>
  /\ UNCHANGED <<evalVars, columnVars, matrixVars>>

\* ------------------------------------------------------------- _examine_factor_types
\* Parameters and locals of _examine_factor_types (lines 301-342).
ExamineLocals ==
  {"factors", "data_iter_maker", "args", "kwargs", "numeric_column_counts",
   "categorical_postprocessors", "categorical_levels_contrasts",
   "examine_needed", "data", "factor", "value", "column_count", "processor"}

\* Line 313, `value = factor.eval(factor_states[factor], data)`: the argument
\* factor_states is read before eval is called.
ExamineEvalRaises == ~IsBound("factor_states", ExamineLocals)

\* _examine_factor_types(factors, data_iter_maker, args, kwargs).
\* Lines 302-305 create the three dicts and examine_needed = set(factors).
\*  - an empty stream: the loop body never runs, line 338 finalizes no
\*    postprocessor, the three empty dicts are returned;
\*  - a chunk and an empty examine_needed: line 310 breaks, same return;
\*  - a chunk and a factor to examine: line 313 ends the call.
ExamineFactorTypes ==
  /\ ex_pc = "ready"
  /\ numeric_column_counts' = EmptyDict
  /\ categorical_postprocessors' = EmptyDict
  /\ categorical_levels_contrasts' = EmptyDict
  /\ examine_needed' = factors
  /\ eval_calls' = <<>>
  /\ IF nchunks = 0
       THEN chunks_read' = 0 /\ ex_pc' = "returned"
       ELSE /\ chunks_read' = 1
            /\ IF factors = {}
                 THEN ex_pc' = "returned"
                 ELSE ExamineEvalRaises /\ ex_pc' = "NameError"
  /\ UNCHANGED <<factors, passes_needed, value_kind, nchunks,
                 fm_pc, fm_factor_states, fm_memorize_passes, memorize_calls,
                 iter_maker_calls, mms_pc, mms_phases, factor_evaluators>>
  /\ UNCHANGED <<evalVars, columnVars, matrixVars>>

\* ------------------------------------------------------------- make_model_specs
\* make_model_specs (lines 414-475): all_factors is collected from the model
\* descriptions (lines 417-421; `factors` here), then line 424 calls
\* _factors_memorize, whose exception propagates: _examine_factor_types is
\* not called and no evaluator is constructed.
MakeModelSpecs ==
  /\ mms_pc = "ready"
  /\ FactorsMemorizeRaises
  /\ mms_phases' = <<"memorize">>
  /\ mms_pc' = "NameError"
  /\ factor_evaluators' = EmptyDict
  /\ UNCHANGED <<factors, passes_needed, value_kind, nchunks,
                 fm_pc, fm_factor_states, fm_memorize_passes, memorize_calls,
                 iter_maker_calls,
                 ex_pc, numeric_column_counts, categorical_postprocessors,
                 categorical_levels_contrasts, examine_needed, chunks_read,
                 eval_calls>>
  /\ UNCHANGED <<evalVars, columnVars, matrixVars>>

\* ------------------------------------------------------------- pipeline spec
PipelineInputs ==
  /\ factors \in SUBSET Factors
  /\ passes_needed \in [factors -> 0..MaxPasses]
  /\ value_kind \in [factors -> ValueKinds]
  /\ nchunks \in 0..MaxChunks

PipelineStart ==
  /\ fm_pc = "ready"
  /\ fm_factor_states = EmptyDict
  /\ fm_memorize_passes = EmptyDict
  /\ memorize_calls = <<>>
  /\ iter_maker_calls = 0
  /\ ex_pc = "ready"
  /\ numeric_column_counts = EmptyDict
  /\ categorical_postprocessors = EmptyDict
  /\ categorical_levels_contrasts = EmptyDict
  /\ examine_needed = {}
  /\ chunks_read = 0
  /\ eval_calls = <<>>
  /\ mms_pc = "ready"
  /\ mms_phases = <<>>
  /\ factor_evaluators = EmptyDict

\* The pipeline is not in use (the other specifications).
PipelineIdle ==
  /\ factors = {}
  /\ passes_needed = EmptyDict
  /\ value_kind = EmptyDict
  /\ nchunks = 0
  /\ PipelineStart

InitPipeline ==
  PipelineInputs /\ PipelineStart /\ EvalIdle /\ ColumnIdle /\ MatrixIdle

NextPipeline == FactorsMemorize \/ ExamineFactorTypes \/ MakeModelSpecs

SpecPipeline == InitPipeline /\ [][NextPipeline]_vars

InitNumericEval ==
  /\ nfe \in NumericEvaluators /\ CategoricIdle /\ EvalStart
  /\ PipelineIdle /\ ColumnIdle /\ MatrixIdle

NextNumericEval == NumericEval

SpecNumericEval == InitNumericEval /\ [][NextNumericEval]_vars

InitCategoricEval ==
  /\ cfe \in CategoricEvaluators /\ NumericIdle /\ EvalStart
  /\ PipelineIdle /\ ColumnIdle /\ MatrixIdle

NextCategoricEval == CategoricEval \/ BoolTransform

SpecCategoricEval == InitCategoricEval /\ [][NextCategoricEval]_vars

InitColumn ==
  /\ cb \in ColumnBuilders /\ ColumnStart
  /\ PipelineIdle /\ EvalIdle /\ MatrixIdle

NextColumn == ColumnNames \/ Build

SpecColumn == InitColumn /\ [][NextColumn]_vars

InitMatrix ==
  /\ MatrixInputs /\ MatrixStart
  /\ PipelineIdle /\ EvalIdle /\ ColumnIdle

NextMatrix == ModelMatrixBuilderInit

SpecMatrix == InitMatrix /\ [][NextMatrix]_vars

\* ============================================================= claims

\* ------------------------------------------------------------- C1
\* The memorize calls a factor received, in order.
CallsTo(f) == SelectSeq(memorize_calls, LAMBDA c : c.factor = f)

MemorizeChunkCall(f, p, k) ==
  [op |-> "memorize_chunk", factor |-> f, pass |-> p, chunk |-> k]

MemorizeFinishCall(f, p) ==
  [op |-> "memorize_finish", factor |-> f, pass |-> p, chunk |-> 0]

\* The calls a factor is due over its first n passes: per pass, one
\* memorize_chunk per chunk in stream order, then one memorize_finish.
RECURSIVE CallsDue(_, _)
CallsDue(f, n) ==
  IF n = 0 THEN <<>>
  ELSE CallsDue(f, n - 1)
       \o [k \in 1..nchunks |-> MemorizeChunkCall(f, n - 1, k)]
       \o <<MemorizeFinishCall(f, n - 1)>>

\* C1: once a call of _factors_memorize has ended, every factor that
\* declares N >= 1 passes has received exactly: for each pass 0..N-1 in
\* increasing order, one memorize_chunk per chunk and then one
\* memorize_finish, and no call with a pass index >= N.
C1_CallsPerPass ==
  fm_pc # "ready" =>
    \A f \in factors :
      passes_needed[f] >= 1 => CallsTo(f) = CallsDue(f, passes_needed[f])

\* ------------------------------------------------------------- C2
\* C2: once a call of _factors_memorize has ended, a factor that declares 0
\* passes has received no memorize_chunk and no memorize_finish call, and
\* factor_states holds an entry for it.
C2_ZeroPassFactor ==
  fm_pc # "ready" =>
    \A f \in factors :
      passes_needed[f] = 0 =>
        /\ CallsTo(f) = <<>>
        /\ f \in DOMAIN fm_factor_states

\* ------------------------------------------------------------- C3
\* The number of the three result dicts that record f.
TimesRecorded(f) ==
  (IF f \in DOMAIN numeric_column_counts THEN 1 ELSE 0)
  + (IF f \in DOMAIN categorical_postprocessors THEN 1 ELSE 0)
  + (IF f \in DOMAIN categorical_levels_contrasts THEN 1 ELSE 0)

\* C3: once a call of _examine_factor_types over a non-empty stream has
\* ended, it has returned, every factor is recorded in exactly one of the
\* three dicts and is out of the working set, and a factor whose value is
\* a Categorical is recorded in categorical_levels_contrasts (so in neither
\* of the other two).
C3_ClassifiedOnce ==
  (ex_pc # "ready" /\ nchunks >= 1) =>
    /\ ex_pc = "returned"
    /\ \A f \in factors :
         /\ TimesRecorded(f) = 1
         /\ f \notin examine_needed
         /\ value_kind[f] = "categorical" =>
              f \in DOMAIN categorical_levels_contrasts

\* ------------------------------------------------------------- C4
\* C4: once a call of _examine_factor_types over a non-empty stream has
\* ended, a factor whose value is a boolean array has been classified
\* without error on the first chunk: it has a postprocessor whose levels
\* are (False, True) and it is out of the working set.
C4_BoolIsCategorical ==
  (ex_pc # "ready" /\ nchunks >= 1) =>
    \A f \in factors :
      value_kind[f] = "bool" =>
        /\ ex_pc = "returned"
        /\ f \in DOMAIN categorical_postprocessors
        /\ categorical_postprocessors[f].levels = <<"False", "True">>
        /\ f \notin examine_needed

\* ------------------------------------------------------------- C5
\* Columns of an array once coerced to a 2-dimensional column matrix.
ColumnCount(a) == AtLeast2dColumnDefault(a).shape[2]

\* C5: after an eval call of a NumericFactorEvaluator on an array value, a
\* column count other than _expected_columns has raised
\* CharltonErrorWithOrigin, and a call that returned gave a 2-dimensional
\* numeric matrix of _expected_columns columns with the rows of its input.
C5_WidthChecked ==
  (nfe_calls > 0 /\ nfe_arg.tag = "array") =>
    /\ ColumnCount(nfe_arg) # nfe.expected_columns =>
         nfe_pc = "CharltonErrorWithOrigin"
    /\ nfe_pc \in {"returned", "CharltonErrorWithOrigin"}
    /\ nfe_pc = "returned" =>
         /\ Len(nfe_result.shape) = 2
         /\ nfe_result.shape[2] = nfe.expected_columns
         /\ nfe_result.shape[1] = AtLeast2dColumnDefault(nfe_arg).shape[1]
         /\ nfe_result.dtype \in NumericDTypes

\* ------------------------------------------------------------- C6
\* C6: after an eval call of a CategoricFactorEvaluator without
\* postprocessor, a Categorical whose level sequence differs from
\* _expected_levels has raised CharltonErrorWithOrigin, so has a value that
\* is not a Categorical, and a call that returned gave the per-row level
\* indices as a single column.
C6_LevelsChecked ==
  (cfe_calls > 0 /\ cfe.postprocessor = "None") =>
    /\ (cfe_arg.tag = "Categorical" /\ cfe_arg.levels # cfe.expected_levels)
         => cfe_pc = "CharltonErrorWithOrigin"
    /\ cfe_arg.tag # "Categorical" => cfe_pc = "CharltonErrorWithOrigin"
    /\ cfe_pc \in {"returned", "CharltonErrorWithOrigin"}
    /\ cfe_pc = "returned" =>
         /\ cfe_result.shape = <<Len(cfe_arg.int_array), 1>>
         /\ cfe_result.flat = cfe_arg.int_array

\* ------------------------------------------------------------- C7
\* The product of widths[k..], the weight of digit k - 1.
RECURSIVE ProdFrom(_, _)
ProdFrom(widths, k) ==
  IF k > Len(widths) THEN 1 ELSE widths[k] * ProdFrom(widths, k + 1)

\* Digit k of column i (0-based) in mixed radix `widths`, the first digit
\* the most significant.
Digit(widths, k, i) == (i \div ProdFrom(widths, k + 1)) % widths[k]

Digits(widths, i) == [k \in 1..Len(widths) |-> Digit(widths, k, i)]

\* A factor's column width as the claims state it.
WidthOf(f) ==
  IF f \in DOMAIN cb.categoric_contrasts
    THEN Len(cb.categoric_contrasts[f].matrix[1])
    ELSE cb.numeric_columns[f]

Widths == [k \in 1..Len(cb.factors) |-> WidthOf(cb.factors[k])]

\* A factor's contribution to row r, for its column idx, as C7 states it.
ContributionDue(f, idx, r) ==
  IF f \in DOMAIN cb.categoric_contrasts
    THEN cb.categoric_contrasts[f].matrix[cb_fv[f][r][1] + 1][idx + 1]
    ELSE cb_fv[f][r][idx + 1]

RECURSIVE ProductDue(_, _, _)
ProductDue(r, i, k) ==
  IF k = 0 THEN 1
  ELSE ProductDue(r, i, k - 1)
       * ContributionDue(cb.factors[k], Digit(Widths, k, i), r)

\* C7: after build on a builder with factors, out[r, i] is the product over
\* the term's factors of the factor's contribution for digit k of i in
\* mixed radix (rightmost factor fastest), and out has one column per
\* combination; column i is the one column_names() names at position i.
C7_ProductOfContributions ==
  (cb.factors # <<>> /\ cb_build_pc = "returned") =>
    /\ \A r \in 1..Len(cb_out) :
         /\ Len(cb_out[r]) = Prod(Widths)
         /\ \A c \in 1..Len(cb_out[r]) :
              cb_out[r][c] = ProductDue(r, c - 1, Len(cb.factors))
    /\ cb_names_pc = "returned" =>
         /\ Len(cb_names) = Prod(Widths)
         /\ \A c \in 1..Len(cb_names) :
              cb_names[c] = JoinPieces(cb, Digits(Widths, c - 1),
                                       Len(cb.factors))

\* test_ColumnBuilder's first case: names ["f1:f2[c1]:f3", "f1:f2[c2]:f3"]
\* and values [[0, 3.75], [0, 2.0], [-108, 0]], here times 4.
C7_Witness ==
  /\ cb = TestBuilder
  /\ cb_build_pc = "returned"
  /\ cb_fv = TestFactorValues
  /\ cb_out = << <<0, 15>>, <<0, 8>>, <<-432, 0>> >>
  /\ cb_names = << <<"f1", ":", "f2", "[c1]", ":", "f3">>,
                   <<"f1", ":", "f2", "[c2]", ":", "f3">> >>

\* ------------------------------------------------------------- C8
\* C8: column_names() returns; for an empty factor list it returns exactly
\* ["Intercept"], otherwise a list whose length is the product of the
\* factors' widths, the name at position i being built for the digits of i
\* in mixed radix with the first factor's digit the slowest.
C8_NamesInOdometerOrder ==
  cb_names_pc # "ready" =>
    /\ cb_names_pc = "returned"
    /\ cb.factors = <<>> => cb_names = << <<"Intercept">> >>
    /\ cb.factors # <<>> =>
         /\ Len(cb_names) = Prod(Widths)
         /\ \A c \in 1..Len(cb_names) :
              cb_names[c] = JoinPieces(cb, Digits(Widths, c - 1),
                                       Len(cb.factors))

\* test_ColumnBuilder's second case (lines 250, 256-259).
C8_Witness ==
  /\ cb = ColumnBuilderNew(<<"f1", "f2", "f3">>,
                           [f \in {"f1", "f3"} |->
                              IF f = "f1" THEN 2 ELSE 1],
                           [f \in {"f2"} |-> ContrastTest])
  /\ cb_names_pc = "returned"
  /\ cb_names =
       << <<"f1", "[", "0", "]", ":", "f2", "[c1]", ":", "f3">>,
          <<"f1", "[", "0", "]", ":", "f2", "[c2]", ":", "f3">>,
          <<"f1", "[", "1", "]", ":", "f2", "[c1]", ":", "f3">>,
          <<"f1", "[", "1", "]", ":", "f2", "[c2]", ":", "f3">> >>

\* ------------------------------------------------------------- C9
\* C9: after build on a builder with an empty factor list, out is a single
\* column whose every row is 1, whatever out held and whatever
\* factor_values holds.
C9_InterceptAllOnes ==
  (cb.factors = <<>> /\ cb_build_pc = "returned") =>
    \A r \in 1..Len(cb_out) : cb_out[r] = <<1>>

\* The intercept built over a chunk of two rows with values for f1, f2, f3.
C9_Witness ==
  /\ cb.factors = <<>>
  /\ cb_build_pc = "returned"
  /\ Len(cb_out) = 2
  /\ cb_out = << <<1>>, <<1>> >>
  /\ DOMAIN cb_fv = Factors

\* ------------------------------------------------------------- C10
SpanOf(t) == column_info.term_to_columns[t]

\* The span statement of C10 for the constructed builder.
SpansLaidOut ==
  LET n == Len(mmb_terms)
  IN  /\ DOMAIN column_info.term_to_columns = Range(mmb_terms)
      /\ n > 0 => SpanOf(mmb_terms[1])[1] = 0
      /\ \A k \in 1..(n - 1) :
           SpanOf(mmb_terms[k + 1])[1] = SpanOf(mmb_terms[k])[2]
      /\ \A k \in 1..n :
           /\ SpanOf(mmb_terms[k])[2] - SpanOf(mmb_terms[k])[1]
                = ThisCount(mmb_term_column_builders[mmb_terms[k]])
           /\ SubSeq(column_info.column_names,
                     SpanOf(mmb_terms[k])[1] + 1, SpanOf(mmb_terms[k])[2])
                = ThisNames(mmb_term_column_builders[mmb_terms[k]])
      /\ n > 0 => SpanOf(mmb_terms[n])[2] = Len(column_info.column_names)

PairwiseDistinct(seq) ==
  \A i, j \in 1..Len(seq) : i # j => seq[i] # seq[j]

\* C10 as claimed: after construction over any list of terms, the first
\* term's span starts at 0, each next span starts where the previous one
\* ends, each span is as long as its term's builders have names, the last
\* span ends at the number of column names, and the names are in term
\* order.
C10_SpansAnyList == mmb_pc = "constructed" => SpansLaidOut

\* C10 as amended: the same, for a list of pairwise distinct terms.
C10_SpansDistinctTerms ==
  (mmb_pc = "constructed" /\ PairwiseDistinct(mmb_terms)) => SpansLaidOut

\* Three distinct terms of 1, 2 and 3 columns: spans (0,1), (1,3), (3,6).
C10_Witness ==
  /\ mmb_pc = "constructed"
  /\ mmb_terms = <<"t2", "t1", "t3">>
  /\ column_info.term_to_columns =
       [t \in Terms |-> CASE t = "t2" -> <<0, 1>>
                          [] t = "t1" -> <<1, 3>>
                          [] t = "t3" -> <<3, 6>>]
  /\ Len(column_info.column_names) = 6

\* ------------------------------------------------------------- C11
\* The chunk in which the examiner made its last factor.eval call (0 when it
\* made none).
LastEvalChunk ==
  IF eval_calls = <<>> THEN 0 ELSE eval_calls[Len(eval_calls)].chunk

\* C11: once a call of _examine_factor_types has ended with an empty
\* working set, the last chunk requested from the stream is the chunk in
\* which the working set became empty, i.e. the chunk of the last
\* factor.eval call (no chunk at all when the set was empty from the start).
C11_NoChunkAfterEmpty ==
  (ex_pc # "ready" /\ examine_needed = {}) => chunks_read = LastEvalChunk

\* ------------------------------------------------------------- C12
\* The largest pass count any factor declares (0 for no factors).
MaxPassesDeclared ==
  IF factors = {} THEN 0
  ELSE CHOOSE n \in 0..MaxPasses :
         /\ \E f \in factors : passes_needed[f] = n
         /\ \A f \in factors : passes_needed[f] <= n

\* C12: a call of _factors_memorize ends, and when it has ended it has
\* called data_iter_maker exactly as many times as the largest pass count
\* declared by any factor.
C12_StreamIterations ==
  fm_pc # "ready" => iter_maker_calls = MaxPassesDeclared

\* ------------------------------------------------------------- C13
\* C13: once a call of make_model_specs has ended, its phases ran in the
\* order memorize, examine, build, each started after the one before it had
\* completed, and every factor has an evaluator bound to the state
\* created for that factor during memorization.
C13_PhasesInOrder ==
  mms_pc # "ready" =>
    /\ mms_phases = <<"memorize", "examine", "build">>
    /\ DOMAIN factor_evaluators = factors
    /\ \A f \in factors : factor_evaluators[f].state = fm_factor_states[f]

\* ------------------------------------------------------------- C14
\* C14: once a call of _examine_factor_types over a non-empty stream has
\* ended, it has returned without a dimension error, and a factor whose
\* values are strings is still in the working set and has one accumulator
\* that was fed every chunk once in stream order and finalized once.
C14_StringAccumulator ==
  (ex_pc # "ready" /\ nchunks >= 1) =>
    \A f \in factors :
      value_kind[f] = "string" =>
        /\ ex_pc = "returned"
        /\ f \in examine_needed
        /\ f \in DOMAIN categorical_postprocessors
        /\ categorical_postprocessors[f].chunks = [k \in 1..nchunks |-> k]
        /\ categorical_postprocessors[f].finished = 1

====
